---- MODULE Spec2Model ----
(***************************************************************************)
(* Model of urllib3's synchronous HTTP/1.1 connection engine               *)
(* (urllib3/sync_connection.py, class SyncHTTP1Connection).                *)
(*                                                                         *)
(* The engine is single threaded.  pc is the position of the one caller    *)
(* thread inside the engine: "idle" between two calls, any other value     *)
(* inside one of the selector loops of connect / send_request / next.      *)
(* The peer (HTTP server or proxy) is a second process that appends        *)
(* protocol units to the socket's receive queue.                           *)
(*                                                                         *)
(* Bytes received are abstracted to protocol units ("tokens"): a complete  *)
(* response header block, a 1xx header block, a piece of body data, or    *)
(* the bytes that end a framed body.                                       *)
(* Bytes sent are identified by <<chunk index, byte index>>.               *)
(***************************************************************************)
EXTENDS Integers, Sequences, FiniteSets

\* ------------------------------------------------------------------ bounds
MaxSocks == 1      \* TCP connections that may be opened in one behaviour
MaxSrv == 3        \* protocol units the peer sends on one connection

\* --------------------------------------------------- sizes of request chunks
HdrLen == 2        \* bytes of the serialised request header block
DataLen == 2       \* bytes of one serialised body chunk
EomLen == 1        \* bytes of the chunked terminator

\* ------------------------------------------------------------------- h11
\* The protocol state machine (h11.Connection, our_role = CLIENT).

NoSM == [our |-> "NONE", their |-> "NONE", buf |-> <<>>, eof |-> FALSE,
         keep_alive |-> FALSE, framed |-> FALSE]

NewSM == [our |-> "IDLE", their |-> "IDLE", buf |-> <<>>, eof |-> FALSE,
          keep_alive |-> TRUE, framed |-> FALSE]

\* a protocol unit on the wire, server to client
Tok(t, ver, close, framed, status) ==
    [t |-> t, ver |-> ver, close |-> close, framed |-> framed, status |-> status]

Plain(t) == Tok(t, "-", FALSE, FALSE, 0)

\* response header blocks: version, "Connection: close", framed body
\* (Content-Length or chunked) or body delimited by the end of the connection
RespHeads ==
    { Tok("Resp", "1.1", FALSE, TRUE, 200),
      Tok("Resp", "1.1", TRUE, TRUE, 200),
      Tok("Resp", "1.0", FALSE, FALSE, 200),
      Tok("Resp", "2.0", FALSE, TRUE, 200) }

\* what a proxy answers to CONNECT
ProxyHeads == { Tok("Resp", "1.1", FALSE, TRUE, 200), Tok("Resp", "1.1", FALSE, TRUE, 407) }

\* pieces of body data, told apart by their place in what the peer sends
DataUnits == { Tok("Data", "-", FALSE, FALSE, k) : k \in 1..MaxSrv }

Tokens == RespHeads \cup ProxyHeads \cup DataUnits \cup { Plain("Info"), Plain("End") }

\* h11 _fire_state_triggered_transitions: keep-alive and socket shutdown rules
Fire(m) ==
    LET a == IF ~m.keep_alive /\ m.our = "DONE" THEN "MUST_CLOSE" ELSE m.our
        b == IF ~m.keep_alive /\ m.their = "DONE" THEN "MUST_CLOSE" ELSE m.their
        a2 == IF (a \in {"DONE", "IDLE"} /\ b = "CLOSED") \/ (a = "DONE" /\ b = "ERROR")
              THEN "MUST_CLOSE" ELSE a
        b2 == IF (a = "CLOSED" /\ b \in {"DONE", "IDLE"}) \/ (a = "ERROR" /\ b = "DONE")
              THEN "MUST_CLOSE" ELSE b
    IN [m EXCEPT !.our = a2, !.their = b2]

\* state_machine.send(h11.Request): client IDLE -> SEND_BODY, server IDLE -> SEND_RESPONSE;
\* a "Connection: close" request header disables keep-alive
SendRequestEvent(m, close) ==
    Fire([m EXCEPT !.our = "SEND_BODY",
                   !.their = IF @ = "IDLE" THEN "SEND_RESPONSE" ELSE @,
                   !.keep_alive = @ /\ ~close])

\* state_machine.send(h11.EndOfMessage): client SEND_BODY -> DONE
SendEndOfMessage(m) == Fire([m EXCEPT !.our = "DONE"])

\* state_machine.receive_data(data): empty data marks the receive buffer closed
ReceiveData(m, d) ==
    IF d = <<>> THEN [m EXCEPT !.eof = TRUE] ELSE [m EXCEPT !.buf = @ \o d]

\* state_machine.start_next_cycle(): both roles DONE -> both IDLE
StartNextCycle(m) == [m EXCEPT !.our = "IDLE", !.their = "IDLE"]

Ev(e, tok) == [e |-> e, tok |-> tok]

\* h11 _extract_next_receive_event: what the reader of their_state makes of the buffer
Extract(m) ==
    LET hd == IF m.buf = <<>> THEN Plain("-") ELSE Head(m.buf) IN
    IF m.their = "DONE" /\ m.buf # <<>> THEN Ev("PAUSED", hd)
    ELSE IF m.their \in {"IDLE", "SEND_RESPONSE"} THEN
        IF m.buf # <<>> THEN
            IF hd.t = "Resp" THEN Ev("Response", hd)
            ELSE IF hd.t = "Info" THEN Ev("InformationalResponse", hd)
            ELSE Ev("ERROR", hd)
        ELSE IF m.eof THEN Ev("ConnectionClosed", hd) ELSE Ev("NEED_DATA", hd)
    ELSE IF m.their = "SEND_BODY" THEN
        IF m.buf # <<>> THEN
            IF ~m.framed THEN Ev("Data", hd)
            ELSE IF hd.t = "Data" THEN Ev("Data", hd)
            ELSE IF hd.t = "End" THEN Ev("EndOfMessage", hd)
            ELSE Ev("ERROR", hd)
        ELSE IF m.eof THEN (IF m.framed THEN Ev("ERROR", hd) ELSE Ev("EndOfMessage", hd))
        ELSE Ev("NEED_DATA", hd)
    ELSE \* DONE, MUST_CLOSE, CLOSED: expect_nothing
        IF m.buf # <<>> THEN Ev("ERROR", hd)
        ELSE IF m.eof THEN Ev("ConnectionClosed", hd) ELSE Ev("NEED_DATA", hd)

\* h11 _process_event for the server role: is the event legal in their_state
Legal(m, e) ==
    CASE e = "Response" -> m.their \in {"IDLE", "SEND_RESPONSE"}
      [] e = "InformationalResponse" -> m.their = "SEND_RESPONSE"
      [] e \in {"Data", "EndOfMessage"} -> m.their = "SEND_BODY"
      [] e = "ConnectionClosed" -> m.their \in {"IDLE", "DONE", "MUST_CLOSE", "CLOSED"}
      [] OTHER -> FALSE

\* the state machine after the server-role event ev has been processed
Process(m, ev) ==
    LET consumed == IF m.buf # <<>> THEN Tail(m.buf) ELSE m.buf IN
    CASE ev.e = "Response" ->
            Fire([m EXCEPT !.their = "SEND_BODY", !.buf = consumed,
                           !.framed = ev.tok.framed,
                           !.keep_alive = @ /\ ~ev.tok.close /\ ev.tok.ver # "1.0"])
      [] ev.e = "InformationalResponse" -> [m EXCEPT !.buf = consumed]
      [] ev.e = "Data" -> [m EXCEPT !.buf = consumed]
      [] ev.e = "EndOfMessage" -> Fire([m EXCEPT !.their = "DONE", !.buf = consumed])
      [] ev.e = "ConnectionClosed" -> Fire([m EXCEPT !.their = "CLOSED"])
      [] OTHER -> m

\* state_machine.next_event(): the event returned ("ERROR" stands for a raised
\* RemoteProtocolError) and the state machine afterwards
NextEvent(m) ==
    IF m.their = "ERROR" THEN [ev |-> Ev("ERROR", Plain("-")), m |-> m]
    ELSE LET ev == Extract(m) IN
         IF ev.e \in {"NEED_DATA", "PAUSED"} THEN [ev |-> ev, m |-> m]
         ELSE IF ev.e = "ERROR" \/ ~Legal(m, ev.e)
              THEN [ev |-> Ev("ERROR", ev.tok), m |-> Fire([m EXCEPT !.their = "ERROR"])]
              ELSE [ev |-> ev, m |-> Process(m, ev)]


\* --------------------------------------------------------------- requests
\* body: the kind of Request.body; n: number of body chunks; chunked: the
\* end-of-message event serialises to bytes (Transfer-Encoding: chunked) rather
\* than to the empty string (Content-Length); close: "Connection: close" header
Req(body, n, chunked, close) == [body |-> body, n |-> n, chunked |-> chunked, close |-> close]

NoReq == Req("-", 0, FALSE, FALSE)

\* the CONNECT request of _tunnel: header block and end-of-message in one chunk
TunnelReq == Req("CONNECT", 0, FALSE, FALSE)

Requests ==
    { Req("none", 0, FALSE, FALSE), Req("none", 0, FALSE, TRUE),
      Req("bytes", 1, FALSE, FALSE), Req("iter", 2, TRUE, FALSE),
      Req("text", 0, FALSE, FALSE) }

\* chunk 0 is header_bytes, chunks 1..n the Data events, chunk n+1 EndOfMessage
ChunkLen(r, i) ==
    IF i = 0 THEN HdrLen
    ELSE IF i <= r.n THEN DataLen
    ELSE IF r.chunked THEN EomLen ELSE 0

\* every byte of the request in the order the state machine produced them
RECURSIVE BytesFrom(_, _, _)
BytesFrom(r, i, j) ==
    IF i > r.n + 1 THEN <<>>
    ELSE IF j > ChunkLen(r, i) THEN BytesFrom(r, i + 1, 1)
    ELSE <<(<<i, j>>)>> \o BytesFrom(r, i, j + 1)

RequestBytes(r) == IF r.body = "CONNECT" THEN BytesFrom(Req("none", 0, FALSE, FALSE), 0, 1)
                   ELSE BytesFrom(r, 0, 1)

\* ------------------------------------------------------------ connect args
\* ctx: verify_mode of ssl_context ("none": no ssl_context); fp: a fingerprint
\* is given; ah: assert_hostname ("False" or anything else)
Args(ctx, fp, ah) == [ctx |-> ctx, fp |-> fp, ah |-> ah]

NoArgs == Args("none", FALSE, "None")

\* ssl_context.verify_mode
VerifyModes == {"CERT_NONE", "CERT_OPTIONAL", "CERT_REQUIRED"}

ConnectArgs ==
    { NoArgs } \cup
    { Args(c, f, a) : c \in VerifyModes, f \in BOOLEAN, a \in {"None", "False"} }

\* read_timeout values; 0 stands for None (wait for ever)
Timeouts == {0, 1}

\* ---------------------------------------------------------------- selector
\* n counts the registrations in effect: register() refuses (KeyError) a
\* socket that is registered already, so n = 2 stands for that failure
NoSel == [alive |-> FALSE, reg |-> 0, mask |-> {}, n |-> 0]

NewSel == [alive |-> TRUE, reg |-> 0, mask |-> {}, n |-> 0]

\* selector.register(sock, events)
Register(sel, s, mask) == [sel EXCEPT !.reg = s, !.mask = mask, !.n = @ + 1]

\* selector.modify(sock, events)
Modify(sel, mask) == [sel EXCEPT !.mask = mask]

\* a tunnel that leaves its socket registered
Unregister_Keeps(sel) == sel

\* selector.unregister(sock)
Unregister(sel) == [sel EXCEPT !.reg = 0, !.mask = {}, !.n = 0]

NewSocket == [open |-> TRUE, blocking |-> TRUE, closes |-> 0, tls |-> FALSE]

\* the peer at the start of a connection: "proxy" answers a CONNECT, "head" is
\* between two responses, "body" inside a framed body, "eofbody" inside a body
\* that ends with the connection, "relay" a proxy that has answered
NewSrv == [sent |-> 0, pos |-> "head"]

NoReset == [event |-> "-", our |-> "-", their |-> "-", upload |-> "-",
            keep_alive |-> FALSE, framed |-> FALSE, pending |-> FALSE]

\* no multipart encoder
NoEncoder == [fields |-> <<>>, chunk_size |-> 0]

VARIABLES
    pc,            \* position of the caller inside the engine
    sock,          \* self._sock: 0 is None, otherwise an index into sockets
    selector,      \* self._selector
    sm,            \* self._state_machine (NoSM is None)
    read_timeout,  \* self._read_timeout
    is_verified,   \* self.is_verified
    tunnel_host,   \* self._tunnel_host is not None
    tsm,           \* tunnel_state_machine of _tunnel
    conn,          \* local conn of connect
    cargs,         \* arguments of the running connect
    req,           \* request being sent
    chunk,         \* index of the chunk being sent
    off,           \* bytes of that chunk already written
    sockets,       \* every TCP socket opened so far
    inq,           \* units sent by the peer and not yet received
    srvClosed,     \* the peer has closed its side of the connection
    srv,           \* the peer: units sent on this connection, position in its output
    wire,          \* request bytes written by the running send_request or _tunnel
    upload,        \* how much of the last request was written: "none", "partial", "complete"
    lastOp,        \* the public operation called last
    result,        \* how it ended ("pending" while it runs)
    reset,         \* what the last _reset saw: next_event result and both states
    response,      \* status of the Response the last call handed to its caller,
                   \* returned or carried by its error; 0 when there is none
    stream,        \* body of the last Response returned: "none", "open" (returned, end
                   \* not yet signalled), "ended" (next() has signalled its end)
    mp             \* a MultipartEncoderGenerator with the iteration over it
                   \* (NoEncoder while the engine is looked at)

engine == <<sock, selector, sm, read_timeout, is_verified, tunnel_host>>
locals == <<tsm, conn, cargs, req, chunk, off, wire, upload>>
peer == <<inq, srvClosed, srv>>
vars == <<pc, sock, selector, sm, read_timeout, is_verified, tunnel_host, tsm, conn,
          cargs, req, chunk, off, sockets, inq, srvClosed, srv, wire, upload,
          lastOp, result, reset, response, stream, mp>>

\* SyncHTTP1Connection.__init__
Constructed ==
    /\ pc = "idle"
    /\ sock = 0
    /\ selector = NoSel
    /\ sm = NoSM
    /\ read_timeout = 0
    /\ is_verified = FALSE
    /\ tunnel_host \in BOOLEAN
    /\ tsm = NoSM
    /\ conn = 0
    /\ cargs = NoArgs
    /\ req = NoReq
    /\ chunk = 0
    /\ off = 0
    /\ sockets = <<>>
    /\ inq = <<>>
    /\ srvClosed = FALSE
    /\ srv = NewSrv
    /\ wire = <<>>
    /\ upload = "none"
    /\ lastOp = "none"
    /\ result = "none"
    /\ reset = NoReset
    /\ response = 0
    /\ stream = "none"

\* an engine after construction, no multipart encoder being there
Init ==
    /\ Constructed
    /\ mp = NoEncoder

\* the complete property
complete == sm = NoSM \/ (sm.our = "IDLE" /\ sm.their = "IDLE")

\* a select that does not report the end of the connection
Readable_DataOnly == inq # <<>>

\* the socket has something to read: data or end of file
Readable == inq # <<>> \/ srvClosed

\* a socket closed as it is, without setblocking(1)
ClosedSocket_AsIs(s) == [s EXCEPT !.open = FALSE, !.closes = @ + 1]

\* sock.setblocking(1); sock.close()
ClosedSocket(s) == [s EXCEPT !.blocking = TRUE, !.open = FALSE, !.closes = @ + 1]

\* sock.setblocking(1) raises on a socket that is already closed
CloseRaises == sock # 0 /\ ~sockets[sock].open

\* close(): the values of _sock, the sockets, _selector and _state_machine afterwards
close ==
    /\ sock' = 0
    /\ IF CloseRaises
       THEN UNCHANGED <<sockets, selector, sm>>
       ELSE /\ sockets' = IF sock # 0 THEN [sockets EXCEPT ![sock] = ClosedSocket(@)]
                          ELSE sockets
            /\ selector' = NoSel
            /\ sm' = NoSM

\* close() called by the user
Close ==
    /\ pc = "idle"
    /\ UNCHANGED mp
    /\ close
    /\ lastOp' = "close"
    /\ response' = 0
    /\ result' = IF CloseRaises THEN "OSError" ELSE "ok"
    /\ reset' = NoReset
    /\ upload' = "none"
    /\ stream' = "none"
    /\ UNCHANGED <<pc, read_timeout, is_verified, tunnel_host, tsm, conn, cargs, req, chunk,
                   off, wire, peer>>

\* a version test that lets HTTP/2.0 through
SupportedVersions_Any == {"1.0", "1.1", "2.0"}

\* _SUPPORTED_VERSIONS
SupportedVersions == {"1.0", "1.1"}

\* a verification flag that does not count a fingerprint
Verified_HostnameOnly(a) == a.ctx = "CERT_REQUIRED" /\ a.ah # "False"

\* _wrap_socket: the value of is_verified it stores
Verified(a) == a.ctx = "CERT_REQUIRED" /\ (a.ah # "False" \/ a.fp)

\* connect from _wrap_socket on, for the new socket c: wrapped is FALSE when
\* ssl_wrap_socket, assert_fingerprint or match_hostname raises
Established(c, socks, sel, a, wrapped) ==
    IF a.ctx # "none" /\ ~wrapped
    THEN /\ sock' = 0
         /\ sockets' = socks
         /\ selector' = sel
         /\ is_verified' = is_verified
         /\ result' = "SSLError"
    ELSE /\ sock' = c
         /\ sockets' = [socks EXCEPT ![c] = [@ EXCEPT !.blocking = FALSE,
                                                     !.tls = (a.ctx # "none")]]
         /\ selector' = Register(sel, c, {"R", "W"})
         /\ is_verified' = IF a.ctx # "none" THEN Verified(a) ELSE is_verified
         /\ result' = "ok"

\* continue_states of _reset
continue_states == {"IDLE", "DONE"}

\* a decision that looks at our own role only
must_close_IgnoresTheirs(event, our_state, their_state) ==
    \/ event # "NEED_DATA"
    \/ our_state \notin continue_states

\* a decision that takes DONE for a reason to close
must_close_IdleOnly(event, our_state, their_state) ==
    \/ event # "NEED_DATA"
    \/ our_state # "IDLE"
    \/ their_state # "IDLE"

\* must_close of _reset
must_close(event, our_state, their_state) ==
    \/ event # "NEED_DATA"
    \/ our_state \notin continue_states
    \/ their_state \notin continue_states

\* _reset, entered with state machine m1: the reuse decision.  reset records what
\* it saw: the event and the states, and, of the exchange that ends, whether the
\* request was written in full, whether keep-alive was still on, whether the body
\* was framed and whether the peer had sent anything after it (bytes or its close)
Reset(m1, sel1) ==
    LET ne == NextEvent(m1)
    IN  /\ reset' = [event |-> ne.ev.e, our |-> ne.m.our, their |-> ne.m.their,
                      upload |-> upload, keep_alive |-> m1.keep_alive,
                      framed |-> m1.framed, pending |-> (m1.buf # <<>> \/ m1.eof)]
        /\ upload' = "none"
        /\ IF ne.ev.e = "ERROR"
           THEN /\ sm' = ne.m
                /\ selector' = sel1
                /\ result' = "RemoteProtocolError"
                /\ UNCHANGED <<sock, sockets, stream>>
           ELSE IF must_close(ne.ev.e, ne.m.our, ne.m.their)
           THEN /\ close
                /\ result' = IF CloseRaises THEN "OSError" ELSE "StopIteration"
                /\ stream' = IF CloseRaises \/ stream # "open" THEN stream ELSE "ended"
           ELSE /\ stream' = IF stream = "open" THEN "ended" ELSE stream
                /\ sm' = IF ne.m.our = "DONE" /\ ne.m.their = "DONE"
                         THEN StartNextCycle(ne.m) ELSE ne.m
                /\ selector' = sel1
                /\ result' = "StopIteration"
                /\ UNCHANGED <<sock, sockets>>

\* send_request or _tunnel is still running: its locals stay
Sending == UNCHANGED <<req, chunk, off, wire, upload>>

\* send_request is over: its locals are gone, what remains is how much was written
Sent ==
    /\ req' = NoReq /\ chunk' = 0 /\ off' = 0 /\ wire' = <<>>
    /\ upload' = IF wire = RequestBytes(req) THEN "complete" ELSE "partial"

\* _tunnel is over
Tunnelled ==
    /\ req' = NoReq /\ chunk' = 0 /\ off' = 0 /\ wire' = <<>>
    /\ UNCHANGED upload

\* a caller that raises FailedTunnelError without the proxy's response
Handed_ReturnedOnly(at, ev) ==
    IF ev.e = "Response" /\ at = "resp" /\ ev.tok.ver \in SupportedVersions
    THEN ev.tok.status ELSE 0

\* _response_from_h11: the Response built from a Response event, returned by
\* send_request or carried by the FailedTunnelError of _tunnel
Handed(at, ev) ==
    IF /\ ev.e = "Response"
       /\ \/ at = "resp" /\ ev.tok.ver \in SupportedVersions
          \/ at = "tun" /\ ev.tok.status # 200
    THEN ev.tok.status ELSE 0

\* send_request: while not isinstance(response, h11.Response)
IsResponse(ev) == ev.e = "Response"

\* next(): the bytes of a Data event are what the iteration yields
Yielded(ev) == IF ev.e = "Data" THEN ev.tok.status ELSE 0

\* what the caller of _read_until_event does with the event it returned.
\* at "resp": the response loop of send_request; at "body": next();
\* at "tun": the response loop of _tunnel followed by the rest of connect.
\* m1 is the state machine and sel1 the selector after _read_until_event.
Returned(at, m1, sel1, ev, wrapped) ==
    CASE at = "resp" ->
            /\ response' = Handed(at, ev)
            /\ sm' = m1
            /\ selector' = sel1
            /\ reset' = NoReset
            /\ UNCHANGED <<sock, sockets, is_verified, tsm, conn, cargs, srv>>
            /\ CASE ev.e = "NEED_DATA" ->
                        /\ pc' = "resp_wait" /\ result' = "pending" /\ Sending
                        /\ UNCHANGED stream
                 [] ev.e = "ERROR" ->
                        /\ pc' = "idle" /\ result' = "RemoteProtocolError" /\ Sent
                        /\ UNCHANGED stream
                 [] IsResponse(ev) ->
                        /\ pc' = "idle"
                        /\ result' = IF ev.tok.ver \in SupportedVersions
                                     THEN "Response" ELSE "BadVersionError"
                        /\ stream' = IF ev.tok.ver \in SupportedVersions
                                     THEN "open" ELSE stream
                        /\ Sent
                 [] OTHER ->
                        /\ pc' = "resp" /\ result' = "pending" /\ Sending
                        /\ UNCHANGED stream
      [] at = "body" ->
            /\ response' = Yielded(ev)
            /\ UNCHANGED <<is_verified, tsm, conn, cargs, srv, req, chunk, off, wire>>
            /\ CASE ev.e = "NEED_DATA" ->
                        /\ pc' = "body_wait" /\ result' = "pending"
                        /\ sm' = m1 /\ selector' = sel1 /\ reset' = NoReset
                        /\ UNCHANGED <<sock, sockets, upload, stream>>
                 [] ev.e = "EndOfMessage" -> pc' = "idle" /\ Reset(m1, sel1)
                 [] OTHER ->
                        /\ pc' = "idle"
                        /\ result' = CASE ev.e = "Data" -> "Data"
                                       [] ev.e = "ERROR" -> "RemoteProtocolError"
                                       [] OTHER -> "UnboundLocalError"
                        /\ sm' = m1 /\ selector' = sel1 /\ reset' = NoReset
                        /\ UNCHANGED <<sock, sockets, upload, stream>>
      [] at = "tun" ->
            /\ response' = Handed(at, ev)
            /\ reset' = NoReset
            /\ UNCHANGED stream
            /\ CASE ev.e = "NEED_DATA" ->
                        /\ pc' = "tun_wait" /\ result' = "pending"
                        /\ tsm' = m1 /\ selector' = sel1 /\ Sending
                        /\ UNCHANGED <<sm, sock, sockets, is_verified, conn, cargs, srv>>
                 [] ev.e = "ERROR" ->
                        /\ pc' = "idle" /\ result' = "RemoteProtocolError"
                        /\ tsm' = NoSM /\ selector' = sel1 /\ conn' = 0 /\ cargs' = NoArgs
                        /\ Tunnelled
                        /\ UNCHANGED <<sm, sock, sockets, is_verified, srv>>
                 [] ev.e = "Response" /\ ev.tok.status # 200 ->
                        /\ pc' = "idle"
                        /\ close
                        /\ result' = IF CloseRaises THEN "OSError" ELSE "FailedTunnelError"
                        /\ tsm' = NoSM /\ conn' = 0 /\ cargs' = NoArgs
                        /\ Tunnelled
                        /\ UNCHANGED <<is_verified, srv>>
                 [] ev.e = "Response" /\ ev.tok.status = 200 ->
                        /\ pc' = "idle"
                        /\ Established(conn, [sockets EXCEPT ![conn].blocking = TRUE],
                                       Unregister(sel1), cargs, wrapped)
                        /\ tsm' = NoSM /\ conn' = 0 /\ cargs' = NoArgs /\ srv' = NewSrv
                        /\ Tunnelled
                        /\ UNCHANGED sm
                 [] OTHER ->
                        /\ pc' = "tun_resp" /\ result' = "pending"
                        /\ tsm' = m1 /\ selector' = sel1 /\ Sending
                        /\ UNCHANGED <<sm, sock, sockets, is_verified, conn, cargs, srv>>

\* the variables Returned does not set
rest == <<read_timeout, tunnel_host, lastOp>>

\* a connect() that would open a connection whether or not a socket is held
Connected_Never == FALSE

\* connect's test that the engine is already connected
Connected == sock # 0

\* connect(ssl_context, fingerprint, assert_hostname): tcp is what
\* connection.create_connection does, wrapped whether _wrap_socket succeeds
Connect(a, tcp, wrapped) ==
    /\ pc = "idle"
    /\ UNCHANGED mp
    \* inputs the call never looks at are held fixed: with a socket it returns at
    \* once, a failed TCP connect ends it before the TLS arguments are used, and
    \* wrapped is the outcome of _wrap_socket, here called for a direct TLS
    \* connection only
    /\ Connected => (tcp = "ok" /\ a = NoArgs)
    /\ tcp # "ok" => a = NoArgs
    /\ ~wrapped => (sock = 0 /\ tcp = "ok" /\ a.ctx # "none" /\ ~tunnel_host)
    /\ lastOp' = "connect"
    /\ reset' = NoReset
    /\ response' = 0
    /\ UNCHANGED <<read_timeout, tunnel_host>>
    /\ IF Connected
       THEN /\ result' = "ok"
            /\ UNCHANGED <<pc, sock, selector, sm, is_verified, locals, sockets, peer, stream>>
       ELSE /\ sm' = NewSM
            /\ stream' = "none"
            /\ IF tcp # "ok"
               THEN /\ selector' = NewSel
                    /\ result' = IF tcp = "timeout" THEN "ConnectTimeoutError"
                                 ELSE "NewConnectionError"
                    /\ UNCHANGED <<pc, sock, is_verified, locals, sockets, peer>>
               ELSE /\ Len(sockets) < MaxSocks
                    /\ inq' = <<>>
                    /\ srvClosed' = FALSE
                    /\ srv' = [NewSrv EXCEPT !.pos = IF a.ctx # "none" /\ tunnel_host
                                                     THEN "proxy" ELSE "head"]
                    /\ LET c == Len(sockets) + 1
                           socks == Append(sockets, NewSocket)
                       IN IF a.ctx # "none" /\ tunnel_host
                          THEN \* _tunnel up to the first select of _send_unless_readable
                               /\ tsm' = SendEndOfMessage(SendRequestEvent(NewSM, FALSE))
                               /\ sockets' = [socks EXCEPT ![c].blocking = FALSE]
                               /\ sock' = c
                               /\ selector' = Register(NewSel, c, {"R", "W"})
                               /\ conn' = c
                               /\ cargs' = a
                               /\ req' = TunnelReq
                               /\ chunk' = 0
                               /\ off' = 0
                               /\ wire' = <<>>
                               /\ pc' = "tun_send"
                               /\ result' = "pending"
                               /\ UNCHANGED <<is_verified, upload>>
                          ELSE /\ Established(c, socks, NewSel, a, wrapped)
                               /\ UNCHANGED <<pc, locals>>

\* a guard that only asks whether the previous request has been sent in full
BadState_OursSent(m) == m.our \notin {"IDLE", "DONE"}

\* send_request's check of the state machine before it begins
BadState(m) == m.our # "IDLE" \/ m.their # "IDLE"

\* send_request(request, read_timeout) up to the first select of the send loop
SendRequest(r, rt) ==
    /\ pc = "idle"
    /\ UNCHANGED mp
    \* a call that fails the check below never looks at the request
    /\ (sm = NoSM \/ BadState(sm)) => r = Req("none", 0, FALSE, FALSE)
    /\ lastOp' = "send_request"
    /\ reset' = NoReset
    /\ response' = 0
    /\ read_timeout' = rt
    /\ UNCHANGED <<sock, sockets, is_verified, tunnel_host, tsm, conn, cargs, peer>>
    /\ IF sm = NoSM
       THEN /\ result' = "AttributeError"
            /\ UNCHANGED <<pc, sm, selector, req, chunk, off, wire, upload, stream>>
       ELSE IF BadState(sm)
       THEN /\ result' = "ProtocolError"
            /\ UNCHANGED <<pc, sm, selector, req, chunk, off, wire, upload, stream>>
       ELSE /\ sm' = SendRequestEvent(sm, r.close)
            /\ stream' = "none"
            /\ IF sock = 0
               THEN \* selector.modify(None, ...)
                    /\ result' = "ValueError"
                    /\ upload' = "none"
                    /\ UNCHANGED <<pc, selector, req, chunk, off, wire>>
               ELSE /\ selector' = Modify(selector, {"R", "W"})
                    /\ req' = r
                    /\ chunk' = 0
                    /\ off' = 0
                    /\ wire' = <<>>
                    /\ upload' = "none"
                    /\ pc' = "send"
                    /\ result' = "pending"

\* _body_bytes and the for loop of send_request once chunk i has been written:
\* the next chunk to send, the end of the request, or an unacceptable body
NextChunk(r, i, m) ==
    IF r.body = "CONNECT" THEN [st |-> "done", i |-> i, m |-> m]
    ELSE IF i = 0 /\ r.body = "text" THEN [st |-> "invalid", i |-> i, m |-> m]
    ELSE IF i + 1 <= r.n THEN [st |-> "send", i |-> i + 1, m |-> m]
    ELSE IF i = r.n
         THEN [st |-> IF ChunkLen(r, i + 1) = 0 THEN "done" ELSE "send",
               i |-> i + 1, m |-> SendEndOfMessage(m)]
    ELSE [st |-> "done", i |-> i, m |-> m]

\* _recv_or_eagain on a readable socket: sock.recv(65536) returns what is queued,
\* nothing at the end of the file
Recv == inq

Received ==
    /\ inq' = <<>>
    /\ UNCHANGED srvClosed

\* a send that starts again at the first byte of the chunk after a partial write
Written_FromStart(n) == wire \o [j \in 1..n |-> <<chunk, j>>]

\* the bytes on the wire after n more bytes of the current chunk are written
Written(n) == wire \o [j \in 1..n |-> <<chunk, off + j>>]

\* what select() reports for the socket: READ when something can be read,
\* WRITE when w says the socket can take bytes; select() waits while neither
Events(w) == (IF Readable THEN {"R"} ELSE {}) \cup (IF w THEN {"W"} ELSE {})

\* a send loop that reads only when the socket cannot be written
ReadFirst_WriteFirst(events) == "R" \in events /\ "W" \notin events

\* _send_unless_readable looks at EVENT_READ before EVENT_WRITE
ReadFirst(events) == "R" \in events

\* the EVENT_WRITE branch of _send_unless_readable: a send of n bytes of the
\* chunk (n = 0: EAGAIN); when the chunk is written the loop returns false and
\* send_request takes the next chunk from the request's generator
Write(m, n) ==
    LET len == ChunkLen(req, chunk) IN
    /\ n \in 0..(len - off)
    /\ UNCHANGED <<inq, srvClosed>>
    /\ IF off + n < len
       THEN /\ off' = off + n
            /\ wire' = Written(n)
            /\ pc' = IF pc = "tun_send" THEN pc ELSE "send"
            /\ UNCHANGED <<sm, tsm, selector, req, chunk, upload, result>>
       ELSE LET nc == NextChunk(req, chunk, m) IN
            /\ IF pc = "tun_send" THEN tsm' = nc.m /\ UNCHANGED sm
                                  ELSE sm' = nc.m /\ UNCHANGED tsm
            /\ CASE nc.st = "send" ->
                        /\ chunk' = nc.i /\ off' = 0 /\ wire' = Written(n)
                        /\ pc' = IF pc = "tun_send" THEN pc ELSE "send"
                        /\ UNCHANGED <<selector, req, upload, result>>
                 [] nc.st = "invalid" ->
                        /\ pc' = "idle"
                        /\ result' = "InvalidBodyError"
                        /\ req' = NoReq /\ chunk' = 0 /\ off' = 0 /\ wire' = <<>>
                        /\ upload' = "partial"
                        /\ UNCHANGED selector
                 [] OTHER ->
                        /\ pc' = IF pc = "tun_send" THEN "tun_resp" ELSE "resp"
                        /\ selector' = Modify(selector, {"R"})
                        /\ result' = "pending"
                        /\ chunk' = nc.i /\ off' = off + n /\ wire' = Written(n)
                        /\ UNCHANGED <<req, upload>>

\* one round of the while loop of _send_unless_readable: select, then either
\* a recv (the socket is readable) or a send of n bytes (n = 0: EAGAIN)
SendStep(w, n) ==
    /\ pc \in {"send", "tun_send"}
    /\ UNCHANGED mp
    /\ Events(w) # {}
    /\ UNCHANGED <<read_timeout, tunnel_host, lastOp, is_verified, sock, sockets, response,
                   conn, cargs, srv, stream>>
    /\ reset' = NoReset
    /\ LET m == IF pc = "send" THEN sm ELSE tsm
       IN IF ReadFirst(Events(w))
          THEN /\ n = 0
               /\ Received
               /\ selector' = Modify(selector, {"R"})
               /\ IF pc = "send"
                  THEN sm' = ReceiveData(m, Recv) /\ pc' = "resp" /\ UNCHANGED tsm
                  ELSE tsm' = ReceiveData(m, Recv) /\ pc' = "tun_resp" /\ UNCHANGED sm
               /\ result' = "pending"
               /\ Sending
          ELSE /\ "W" \in Events(w)
               /\ Write(m, n)

\* what a TLS socket may do in one round of the while loop of
\* _send_unless_readable besides taking or giving bytes: "EAGAIN", the select
\* reports READ for a record of TLS's own and recv has nothing to return;
\* "WantRead", the select reports WRITE and send raises SSLWantReadError;
\* "WantWrite", the select reports READ and recv raises SSLWantWriteError,
\* which neither _recv_or_eagain nor the loop catches
TlsOutcomes == {"EAGAIN", "WantRead", "WantWrite"}

\* one round of the while loop of _send_unless_readable on a TLS socket in
\* which no byte is sent or received
SendTls(o) ==
    /\ pc = "send"
    /\ UNCHANGED mp
    /\ sockets[sock].tls
    /\ (o = "WantWrite") => Readable
    /\ (o = "WantRead") => ~Readable
    /\ CASE o = "WantWrite" ->
                /\ pc' = "idle"
                /\ result' = "SSLWantWriteError"
                /\ reset' = NoReset
                /\ Sent
         [] o = "WantRead" ->
                /\ pc' = "send_wait"
                /\ UNCHANGED <<result, reset, req, chunk, off, wire, upload>>
         [] OTHER -> UNCHANGED <<pc, result, reset, req, chunk, off, wire, upload>>
    /\ UNCHANGED <<engine, tsm, conn, cargs, sockets, peer, lastOp, response, stream>>

\* after SSLWantReadError: _wait_for_event(EVENT_READ, None) returns when the
\* socket is readable (it waits for ever otherwise), and the inner loop sends
\* again without another select
SendRetry(n) ==
    /\ pc = "send_wait"
    /\ UNCHANGED mp
    /\ Readable
    /\ UNCHANGED <<read_timeout, tunnel_host, lastOp, is_verified, sock, sockets, response,
                   conn, cargs, srv, stream>>
    /\ reset' = NoReset
    /\ Write(sm, n)

\* _read_until_event up to its while loop: next_event, selector.modify
ReadStart(wrapped) ==
    /\ pc \in {"resp", "tun_resp"}
    /\ UNCHANGED mp
    /\ ~wrapped => pc = "tun_resp"
    /\ UNCHANGED <<rest, inq, srvClosed>>
    /\ LET ne == NextEvent(IF pc = "resp" THEN sm ELSE tsm) IN
       Returned(IF pc = "resp" THEN "resp" ELSE "tun", ne.m,
                Modify(selector, {"R"}), ne.ev, wrapped)

\* the timeout given to _read_until_event
SelectTimeout == IF pc = "tun_wait" THEN 0 ELSE read_timeout

\* one round of the while loop of _read_until_event: select(read_timeout) comes
\* back empty
ReadTimeout ==
    /\ pc \in {"resp_wait", "body_wait", "tun_wait"}
    /\ UNCHANGED mp
    /\ SelectTimeout # 0
    /\ ~Readable
    /\ pc' = "idle"
    /\ result' = "Timeout"
    /\ reset' = NoReset
    /\ IF pc = "resp_wait" THEN Sent ELSE Sending
    /\ UNCHANGED <<engine, tsm, conn, cargs, sockets, peer, lastOp, response, stream>>

\* what _wait_for_event raises when its select comes back empty: it calls
\* sock.timeout, an attribute of the socket object, not the exception class
WaitExpired == "TypeError"

\* one round of the inner loop of _read_until_event on a TLS socket: the select
\* has found the socket readable, recv raises SSLWantWriteError and
\* _wait_for_event waits for the socket to be writable (w), with the selector's
\* mask put back afterwards; then recv is tried again
ReadWantWrite(w) ==
    /\ pc \in {"resp_wait", "body_wait"}
    /\ UNCHANGED mp
    /\ Readable
    /\ sockets[sock].tls
    /\ ~w => SelectTimeout # 0
    /\ IF w
       THEN UNCHANGED <<pc, result, reset, req, chunk, off, wire, upload>>
       ELSE /\ pc' = "idle"
            /\ result' = WaitExpired
            /\ reset' = NoReset
            /\ IF pc = "resp_wait" THEN Sent ELSE Sending
    /\ UNCHANGED <<engine, tsm, conn, cargs, sockets, peer, lastOp, response, stream>>

\* one round of the while loop of _read_until_event: the socket is readable,
\* recv, receive_data, next_event
ReadStep(wrapped) ==
    /\ pc \in {"resp_wait", "body_wait", "tun_wait"}
    /\ UNCHANGED mp
    /\ ~wrapped => pc = "tun_wait"
    /\ Readable
    /\ Received
    /\ UNCHANGED rest
    /\ LET m == IF pc = "tun_wait" THEN tsm ELSE sm
           ne == NextEvent(ReceiveData(m, Recv))
       IN Returned(CASE pc = "resp_wait" -> "resp" [] pc = "body_wait" -> "body"
                     [] OTHER -> "tun",
                   ne.m, selector, ne.ev, wrapped)

\* next(): one step of the iteration over the response body
Next_ ==
    /\ pc = "idle"
    /\ UNCHANGED mp
    /\ lastOp' = "next"
    /\ UNCHANGED <<read_timeout, tunnel_host, inq, srvClosed>>
    /\ IF sm = NoSM
       THEN /\ result' = "StopIteration"
            /\ reset' = NoReset
            /\ response' = 0
            /\ UNCHANGED <<pc, sm, sock, selector, sockets, is_verified, locals, srv, stream>>
       ELSE LET ne == NextEvent(sm) IN
            IF sock = 0
            THEN \* selector.modify(None, ...)
                 /\ sm' = ne.m
                 /\ result' = "ValueError"
                 /\ reset' = NoReset
                 /\ response' = 0
                 /\ UNCHANGED <<pc, sock, selector, sockets, is_verified, locals, srv,
                                stream>>
            ELSE Returned("body", ne.m, Modify(selector, {"R"}), ne.ev, TRUE)

\* what is_dropped() returns
is_dropped == sock = 0 \/ Readable

\* is_dropped() called by the user: it leaves the selector waiting for READ
IsDropped ==
    /\ pc = "idle"
    /\ UNCHANGED mp
    /\ lastOp' = "is_dropped"
    /\ response' = 0
    /\ reset' = NoReset
    /\ result' = "ok"
    /\ selector' = IF sock = 0 THEN selector ELSE Modify(selector, {"R"})
    /\ UNCHANGED <<pc, sock, sm, read_timeout, is_verified, tunnel_host, locals, sockets,
                   peer, stream>>

\* the connection the peer is talking on: the socket opened last, while open
PeerConnected == sockets # <<>> /\ sockets[Len(sockets)].open

\* the units the peer may send next, and where it is afterwards: it answers
\* with well-formed responses, asked for or not
PeerMay(t) ==
    CASE srv.pos = "proxy" -> t \in ProxyHeads
      [] srv.pos = "head" -> t \in RespHeads \/ t.t = "Info"
      [] srv.pos = "body" -> t = Plain("End") \/ (t.t = "Data" /\ t.status = srv.sent + 1)
      [] srv.pos = "eofbody" -> t.t = "Data" /\ t.status = srv.sent + 1
      [] OTHER -> FALSE

PeerPos(t) ==
    CASE srv.pos = "proxy" -> "relay"
      [] t.t = "Resp" -> IF t.framed THEN "body" ELSE "eofbody"
      [] t.t = "End" -> "head"
      [] OTHER -> srv.pos

\* where the engine waits in select or is about to; what the peer sends at any
\* other moment is seen by the engine at the next of these
SelectPoints == {"send", "tun_send", "resp_wait", "body_wait", "tun_wait"}

\* the peer sends one unit
ServerSend(t) ==
    /\ PeerConnected
    /\ UNCHANGED mp
    /\ ~srvClosed
    /\ srv.sent < MaxSrv
    /\ pc \in SelectPoints
    /\ PeerMay(t)
    /\ inq' = Append(inq, t)
    /\ srv' = [sent |-> srv.sent + 1, pos |-> PeerPos(t)]
    /\ UNCHANGED <<pc, engine, locals, sockets, srvClosed, lastOp, result, reset, response, stream>>

\* the peer closes the connection
ServerClose ==
    /\ PeerConnected
    /\ UNCHANGED mp
    /\ ~srvClosed
    /\ srvClosed' = TRUE
    /\ UNCHANGED <<pc, engine, locals, sockets, inq, srv, lastOp, result, reset, response, stream>>

Next ==
    \/ \E a \in ConnectArgs, tcp \in {"ok", "timeout", "error"}, w \in BOOLEAN :
          Connect(a, tcp, w)
    \/ \E r \in Requests, rt \in Timeouts : SendRequest(r, rt)
    \/ \E w \in BOOLEAN, n \in 0..DataLen : SendStep(w, n)
    \/ \E o \in TlsOutcomes : SendTls(o)
    \/ \E n \in 0..DataLen : SendRetry(n)
    \/ \E w \in BOOLEAN : ReadStart(w)
    \/ ReadTimeout
    \/ \E w \in BOOLEAN : ReadWantWrite(w)
    \/ \E w \in BOOLEAN : ReadStep(w)
    \/ Next_
    \/ Close
    \/ IsDropped
    \/ \E t \in Tokens : ServerSend(t)
    \/ ServerClose

Spec == Init /\ [][Next]_vars

\* ---------------------------------------------------------------------------
\* filepost.py: the multipart encoder. Text is a sequence of characters, what
\* the encoder emits a sequence of units: a byte of data, or a literal piece
\* of a header line standing for its bytes.

\* longest text, byte string, file content or generator of the fields
MaxData == 1

\* largest chunk_size tried
MaxChunkSize == 1

\* the names of the input mapping and the filenames of its file parts
Names == {"foo", "somefile"}
Filenames == {"name.txt", "blob"}

\* the boundary given to the constructor
Boundary == "boundary"

\* characters of unicode text: one inside ASCII, one outside
Chars == {"a", "e_acute"}

\* bytes of byte strings and files: one inside ASCII, one outside
Bytes == {"a", "ff"}

\* the integers given as values
Ints == {0, 42, -7}

\* the bytes that are not ASCII
NonAscii == {"c3", "a9", "ff"}

Strings(alphabet) == UNION { [1..k -> alphabet] : k \in 0..MaxData }

\* a value of the mapping: unicode text, a byte string (str), an integer, a
\* seekable file at position pos, a readable that cannot seek, or a generator of
\* one-character chunks of which pos have been taken
Value(kind, data, n, pos) == [kind |-> kind, data |-> data, n |-> n, pos |-> pos]

Values ==
    { Value("text", d, 0, 0) : d \in Strings(Chars) } \cup
    { Value("str", d, 0, 0) : d \in Strings(Bytes) } \cup
    { Value("int", <<>>, n, 0) : n \in Ints } \cup
    { Value("file", d, 0, 0) : d \in Strings(Bytes) } \cup
    { Value("file", d, 0, 1) : d \in Strings(Bytes) \ {<<>>} } \cup
    { Value("pipe", d, 0, 0) : d \in Strings(Bytes) } \cup
    { Value("gen", d, 0, 0) : d \in Strings(Chars) }

\* one item of the mapping: value alone (filename "") or a (filename, value)
\* tuple
Field(name, filename, value) == [name |-> name, filename |-> filename, value |-> value]

\* the mappings, as the sequence of their items in the order iteritems gives
FieldMappings ==
    { fs \in UNION { [1..k -> { Field(nm, fn, v) : nm \in Names, fn \in Filenames \cup {""},
                                                  v \in Values }] : k \in 0..Cardinality(Names) } :
        \A i, j \in 1..Len(fs) : fs[i].name = fs[j].name => i = j }

\* get_content_type: mimetypes knows the type of name.txt and not that of blob
get_content_type(filename) ==
    IF filename = "name.txt" THEN "text/plain" ELSE "application/octet-stream"

\* the UTF-8 bytes of one character
Utf8(c) == IF c = "e_acute" THEN <<"c3", "a9">> ELSE <<c>>

\* encode: str.encode('utf-8') of unicode text
RECURSIVE encode(_)
encode(str) == IF str = <<>> THEN <<>> ELSE Utf8(Head(str)) \o encode(Tail(str))

\* a byte string Python 2 can turn into unicode with its default codec, which
\* encode(str) and unicode(str) do first when they are given a byte string
IsAscii(str) == \A k \in 1..Len(str) : str[k] \notin NonAscii

\* str(data) of an integer: its decimal digits
RECURSIVE Digits(_)
Digits(n) ==
    LET digit(d) == <<"0", "1", "2", "3", "4", "5", "6", "7", "8", "9">>[d + 1]
    IN IF n < 10 THEN <<digit(n)>> ELSE Digits(n \div 10) \o <<digit(n % 10)>>
str(n) == IF n < 0 THEN <<"-">> \o Digits(-n) ELSE Digits(n)

\* len(chunk) of what the encoder yields: the number of its bytes
Width(u) ==
    CASE u = "--" -> 2
      [] u = "CRLF" -> 2
      [] u = "Content-Disposition: form-data; name=QUOTE" -> 38
      [] u = "QUOTE; filename=QUOTE" -> 13
      [] u = "QUOTE CRLF" -> 3
      [] u = "Content-Type: " -> 14
      [] u = "text/plain" -> 10
      [] u = "application/octet-stream" -> 24
      [] u = "boundary" -> 8
      [] u = "foo" -> 3
      [] u = "somefile" -> 8
      [] u = "name.txt" -> 8
      [] u = "blob" -> 4
      [] OTHER -> 1

RECURSIVE Size(_)
Size(units) == IF units = <<>> THEN 0 ELSE Width(Head(units)) + Size(Tail(units))

\* MultipartEncoderGenerator(fields, boundary, chunk_size) with the generator
\* __iter__ returns: i and stage are where the generator stands, out what it
\* has yielded so far, status "new", "iterating", "done" (StopIteration) or
\* "error" (UnicodeDecodeError); predicted_size is what __len__ returned (-1:
\* not called) and early whether that was before the iteration began
MultipartEncoderGenerator(fields, chunk_size) ==
    [fields |-> fields, chunk_size |-> chunk_size,
     input |-> fields, i |-> 1, stage |-> IF fields = <<>> THEN "close" ELSE "part",
     out |-> <<>>, status |-> "new", predicted_size |-> -1, early |-> FALSE]

\* what the generator does when it is resumed
Yield(units, i, stage, pos) ==
    [res |-> "yield", chunk |-> units, i |-> i, stage |-> stage, pos |-> pos]
Raise(m) ==
    [res |-> "error", chunk |-> <<>>, i |-> m.i, stage |-> "done", pos |-> 0]

\* fp.read(size) at position pos
read(v, size) ==
    SubSeq(v.data, v.pos + 1, IF v.pos + size < Len(v.data) THEN v.pos + size ELSE Len(v.data))

\* __iter__ from one yield to the next
Resume(m) ==
    LET n == Len(m.fields)
        f == m.fields[m.i]
        v == f.value
        End == Yield(<<"CRLF">>, m.i + 1, IF m.i < n THEN "part" ELSE "close", 0)
    IN CASE m.stage = "part" ->
                Yield(<<"--", Boundary, "CRLF">>, m.i, "disposition", v.pos)
         [] m.stage = "disposition" ->
                Yield(IF f.filename # ""
                      THEN <<"Content-Disposition: form-data; name=QUOTE", f.name,
                             "QUOTE; filename=QUOTE", f.filename, "QUOTE CRLF">>
                      ELSE <<"Content-Disposition: form-data; name=QUOTE", f.name,
                             "QUOTE CRLF">>,
                      m.i, "type", v.pos)
         [] m.stage = "type" ->
                Yield(<<"Content-Type: ",
                        IF f.filename # "" THEN get_content_type(f.filename) ELSE "text/plain",
                        "CRLF", "CRLF">>,
                      m.i, "data", v.pos)
         [] m.stage = "data" ->
               (CASE v.kind = "text" -> Yield(encode(v.data), m.i, "end", v.pos)
                  [] v.kind = "int" -> Yield(str(v.n), m.i, "end", v.pos)
                  [] v.kind \in {"file", "pipe"} ->
                        LET got == read(v, m.chunk_size)
                        IN IF got = <<>> THEN End
                           ELSE IF ~IsAscii(got) THEN Raise(m)
                           ELSE Yield(encode(got), m.i, "data", v.pos + Len(got))
                  [] v.kind = "gen" ->
                        IF v.pos = Len(v.data) THEN End
                        ELSE Yield(encode(<<v.data[v.pos + 1]>>), m.i, "data", v.pos + 1)
                  [] v.kind = "str" ->
                        IF ~IsAscii(v.data) THEN Raise(m)
                        ELSE Yield(v.data, m.i, "end", v.pos))
         [] m.stage = "end" -> End
         [] m.stage = "close" ->
                Yield(<<"--", Boundary, "--", "CRLF">>, m.i, "done", 0)
         [] m.stage = "done" ->
                [res |-> "stop", chunk |-> <<>>, i |-> m.i, stage |-> "done", pos |-> 0]

\* the encoder after the generator was resumed once
Resumed(m) ==
    LET r == Resume(m)
    IN [m EXCEPT
          !.i = r.i,
          !.stage = r.stage,
          !.out = @ \o r.chunk,
          !.status = CASE r.res = "yield" -> "iterating"
                       [] r.res = "stop" -> "done"
                       [] r.res = "error" -> "error",
          !.fields = IF r.res = "yield" /\ m.stage = "data"
                     THEN [@ EXCEPT ![m.i].value.pos = r.pos] ELSE @]

\* sum(len(chunk) for chunk in iter(encoder)) over what is left of an iteration
RECURSIVE Total(_)
Total(m) ==
    LET r == Resume(m)
    IN IF r.res = "yield" THEN Size(r.chunk) + Total(Resumed(m)) ELSE 0

\* file_size(fp)
file_size(v) == Len(v.data) - v.pos

\* the size __len__ adds for one value
DataSize(v) ==
    CASE v.kind \in {"text", "str"} -> Len(v.data)
      [] v.kind = "int" -> Len(str(v.n))
      [] v.kind = "file" -> file_size(v)
      [] v.kind = "pipe" -> Len(read(v, Len(v.data)))
      [] v.kind = "gen" -> Len(v.data) - v.pos

RECURSIVE Sum(_, _)
Sum(fs, k) == IF k = 0 THEN 0 ELSE DataSize(fs[k].value) + Sum(fs, k - 1)

\* empty_fields of __len__: every value replaced by ''
empty_fields(fs) ==
    [k \in 1..Len(fs) |-> Field(fs[k].name, fs[k].filename, Value("str", <<>>, 0, 0))]

\* __len__: the value it returns
Length(m) ==
    Sum(m.fields, Len(m.fields))
        + Total(MultipartEncoderGenerator(empty_fields(m.fields), m.chunk_size))

\* __len__: what it leaves of the values, a readable without seek and a
\* generator being read to their end
Measured(fs) ==
    [k \in 1..Len(fs) |->
        IF fs[k].value.kind \in {"pipe", "gen"}
        THEN [fs[k] EXCEPT !.value.pos = Len(fs[k].value.data)] ELSE fs[k]]

\* the variables of the engine
connection == <<pc, sock, selector, sm, read_timeout, is_verified, tunnel_host, tsm,
                conn, cargs, req, chunk, off, sockets, inq, srvClosed, srv, wire,
                upload, lastOp, result, reset, response, stream>>

\* an encoder over any mapping, next to an engine left alone
FilepostInit ==
    /\ Constructed
    /\ ~tunnel_host
    /\ mp \in { MultipartEncoderGenerator(fs, cs) : fs \in FieldMappings, cs \in 1..MaxChunkSize }

\* len(encoder)
CallLen ==
    /\ mp.predicted_size = -1
    /\ mp.status # "error"
    /\ mp' = [mp EXCEPT !.predicted_size = Length(mp),
                        !.early = (mp.status = "new"),
                        !.fields = Measured(@)]
    /\ UNCHANGED connection

\* next() of the generator, as IterStreamer and ''.join call it
IterNext ==
    /\ mp.status \in {"new", "iterating"}
    /\ mp' = Resumed(mp)
    /\ UNCHANGED connection

FilepostNext ==
    \/ CallLen
    \/ IterNext

FilepostSpec == FilepostInit /\ [][FilepostNext]_vars

-----------------------------------------------------------------------------
\* The properties of the engine

\* send_request is called (any request, any read timeout)
CallsSendRequest == \E r \in Requests, rt \in Timeouts : SendRequest(r, rt)

\* the engine is IDLE/IDLE: it has a state machine and both roles are IDLE
Ready == sm # NoSM /\ ~BadState(sm)

\* C1: send_request is accepted only when both roles of the state machine are
\* IDLE; called in any other state, an engine never connected or already closed
\* included, it raises ProtocolError.
C1_OnlyIdleOrProtocolError ==
    [][(CallsSendRequest /\ ~Ready) => result' = "ProtocolError"]_vars

\* C2: while a response returned by send_request has not been read to its
\* EndOfMessage, a second send_request raises ProtocolError.
C2_SecondRequestRejected ==
    [][(CallsSendRequest /\ stream = "open") => result' = "ProtocolError"]_vars

\* a second send_request has been refused while the response was being read
C2_Witness ==
    /\ pc = "idle"
    /\ stream = "open"
    /\ lastOp = "send_request"
    /\ result = "ProtocolError"
    /\ sm.their = "SEND_BODY"

\* next() has met EndOfMessage, _reset has taken its decision and next() has
\* signalled the end of the body
Decided ==
    /\ pc = "idle"
    /\ lastOp = "next"
    /\ result = "StopIteration"
    /\ reset # NoReset

\* next() returns or raises with this step
NextReturns == lastOp' = "next" /\ pc' = "idle" /\ (pc = "body_wait" \/ Next_)

\* the engine holds nothing: no socket, no selector, no state machine
Closed == sock = 0 /\ selector = NoSel /\ sm = NoSM

\* the engine holds an open socket, registered with its selector
Kept ==
    /\ sock # 0
    /\ sockets[sock].open
    /\ selector.alive
    /\ selector.reg = sock

\* C3: at EndOfMessage the engine asks next_event once; the connection is kept
\* when the answer is NEED_DATA and both roles are IDLE or DONE (and DONE/DONE
\* is reset to IDLE/IDLE), in every other case it is closed.  After the
\* decision the engine is either closed or ready for the next exchange.
C3_ClosedOrReady ==
    Decided =>
        /\ IF /\ reset.event = "NEED_DATA"
              /\ reset.our \in {"IDLE", "DONE"}
              /\ reset.their \in {"IDLE", "DONE"}
           THEN Kept /\ (reset.our = "DONE" /\ reset.their = "DONE" => Ready)
           ELSE Closed
        /\ Closed \/ (Kept /\ Ready)

\* the peer has made known that the connection ends with this response: its
\* role ended in MUST_CLOSE or CLOSED, or next_event gave something else than
\* NEED_DATA
PeerEnds == reset.their \in {"MUST_CLOSE", "CLOSED"} \/ reset.event # "NEED_DATA"

\* C4: when the peer signals that the connection ends with the response, the
\* engine holds no socket once the body has been iterated to its end, and the
\* socket it held has been closed.
C4_NoReuseOnClose ==
    [][(NextReturns /\ Decided' /\ PeerEnds') =>
           /\ Closed'
           /\ sock # 0
           /\ ~sockets'[sock].open
           /\ sockets'[sock].closes = 1]_vars

\* a response that announced "Connection: close" has been read to its end
C4_Witness ==
    /\ Decided
    /\ reset.their = "MUST_CLOSE"
    /\ reset.upload = "complete"
    /\ sock = 0
    /\ sockets # <<>>

\* the exchange that ended was clean: the request was written in full, neither
\* side asked to close, the body was framed and the peer sent nothing after it
CleanExchange ==
    /\ reset.upload = "complete"
    /\ reset.keep_alive
    /\ reset.framed
    /\ ~reset.pending

\* C5: after a clean exchange the engine is complete, its socket is still
\* open and registered, and a following send_request is accepted.
C5_ReuseWhenAllowed ==
    /\ []((Decided /\ CleanExchange) => (complete /\ Kept /\ Ready))
    /\ [][(Decided /\ CleanExchange /\ CallsSendRequest) =>
              (pc' = "send" /\ result' = "pending")]_vars

\* a clean exchange has ended and the connection has been kept
C5_Witness ==
    /\ Decided
    /\ CleanExchange
    /\ reset.our = "DONE"
    /\ reset.their = "DONE"
    /\ sock # 0
    /\ complete

\* the peer's final response head is waiting in the socket
FinalWaiting == \E i \in DOMAIN inq : inq[i].t = "Resp"

\* the request is only partly written and the state machine has just been given
\* a final response head of a supported version
PreEmpted ==
    /\ pc = "resp"
    /\ wire # RequestBytes(req)
    /\ sm.buf # <<>>
    /\ Head(sm.buf).t = "Resp"
    /\ Head(sm.buf).ver \in SupportedVersions

\* C6: when the peer's final response arrives while the request is only partly
\* written, send_request stops uploading: from the select that finds the
\* response it writes no further byte of the request, and it returns that
\* Response.
C6_PreEmption ==
    [][/\ ((pc = "send" /\ FinalWaiting) \/ pc \in {"resp", "resp_wait"}) =>
              Len(wire') <= Len(wire)
       /\ (pc = "send" /\ FinalWaiting /\ pc' # pc) =>
              (pc' = "resp" /\ inq' = <<>> /\ wire' = wire)
       /\ (PreEmpted /\ pc' # pc) =>
              (pc' = "idle" /\ result' = "Response" /\ upload' = "partial")]_vars

\* send_request has returned a Response with part of the request unwritten
C6_Witness ==
    /\ pc = "idle"
    /\ lastOp = "send_request"
    /\ result = "Response"
    /\ upload = "partial"
    /\ sm.our = "SEND_BODY"
    /\ stream = "open"

\* C7: each next() on the body of a response returns the bytes of one Data
\* event or, at EndOfMessage, takes the reuse decision and signals the end; once
\* the end of a response has been signalled, every further next() signals the
\* end at once, without waiting on the socket and without failing, whether the
\* connection was kept or closed.
C7_EndIsFinal ==
    [][/\ (stream = "open" /\ NextReturns) =>
              \/ result' \in {"Data", "Timeout", "RemoteProtocolError"}
              \/ result' = "StopIteration" /\ reset' # NoReset /\ stream' = "ended"
       /\ (stream = "ended" /\ Next_) => result' = "StopIteration"]_vars

\* the failures of send_request and of next() that are final
FatalErrors ==
    {"Timeout", "BadVersionError", "ProtocolError", "InvalidBodyError",
     "RemoteProtocolError", "OSError"}

\* C8: when send_request or next() ends with a fatal error, the engine has been
\* closed: it holds no socket and no selector, complete is true and is_dropped
\* returns true.
C8_ErrorsClose ==
    (pc = "idle" /\ lastOp \in {"send_request", "next"} /\ result \in FatalErrors) =>
        (sock = 0 /\ selector = NoSel /\ complete /\ is_dropped)

\* the failures of connect()
ConnectErrors ==
    {"ConnectTimeoutError", "NewConnectionError", "FailedTunnelError", "SSLError"}

\* connect() raises with this step
ConnectRaises ==
    /\ lastOp' = "connect"
    /\ pc' = "idle"
    /\ result' \in ConnectErrors
    /\ \/ pc \in {"tun_send", "tun_resp", "tun_wait"}
       \/ \E a \in ConnectArgs, tcp \in {"ok", "timeout", "error"}, w \in BOOLEAN :
             Connect(a, tcp, w)

\* C9: when connect() raises, the engine holds neither a socket nor a selector
\* afterwards, and the TCP socket the call opened, if any, has been closed.
C9_FailedConnectReleases ==
    [][ConnectRaises =>
           /\ sock' = 0
           /\ selector' = NoSel
           /\ \A i \in DOMAIN sockets' :
                 (i \notin DOMAIN sockets \/ i = sock) => ~sockets'[i].open]_vars

\* C10: close() never raises and leaves the engine with no socket, no selector
\* and no state machine; on an engine that holds nothing it changes nothing; a
\* socket that was held is back in blocking mode and closed, and no socket is
\* ever closed twice.
C10_CloseIdempotent ==
    [][/\ Close =>
              /\ result' = "ok"
              /\ sock' = 0 /\ selector' = NoSel /\ sm' = NoSM
              /\ sock # 0 => /\ sockets'[sock].blocking
                             /\ ~sockets'[sock].open
                             /\ sockets'[sock].closes = 1
              /\ Closed => UNCHANGED <<engine, sockets>>
       /\ \A i \in DOMAIN sockets' : sockets'[i].closes <= 1]_vars

\* close() has released a connection
C10_Witness ==
    /\ pc = "idle"
    /\ lastOp = "close"
    /\ result = "ok"
    /\ Closed
    /\ sockets # <<>>
    /\ sockets[1].closes = 1
    /\ sockets[1].blocking

\* the units the response loop of send_request hands to the state machine with
\* its next step: what is buffered and, after a select, what the socket holds
Processing == IF pc = "resp" THEN sm.buf ELSE sm.buf \o inq

\* the response loop of send_request is about to see a final response head
SeesResponse ==
    /\ pc \in {"resp", "resp_wait"}
    /\ Processing # <<>>
    /\ Head(Processing).t = "Resp"

\* C11: send_request raises BadVersionError whenever the Response event it
\* receives (the step that hands the head to the state machine) carries a
\* version other than 1.0 and 1.1, and returns a Response, never
\* BadVersionError, when the version is 1.0 or 1.1.
C11_BadVersion ==
    [][/\ (SeesResponse /\ sm' # sm) =>
              /\ pc' = "idle"
              /\ result' = IF Head(Processing).ver \in {"1.0", "1.1"}
                            THEN "Response" ELSE "BadVersionError"
       /\ (lastOp' = "send_request" /\ result' \in {"Response", "BadVersionError"}
              /\ result # result') => SeesResponse]_vars

\* send_request has refused an HTTP/2.0 response
C11_Witness ==
    /\ pc = "idle"
    /\ lastOp = "send_request"
    /\ result = "BadVersionError"
    /\ sm.their = "SEND_BODY"

\* the units the response loop of _tunnel hands to its state machine with its
\* next step
TunnelProcessing == IF pc = "tun_resp" THEN tsm.buf ELSE tsm.buf \o inq

\* the response loop of _tunnel is about to see the proxy's answer to CONNECT
SeesProxyAnswer ==
    /\ pc \in {"tun_resp", "tun_wait"}
    /\ TunnelProcessing # <<>>
    /\ Head(TunnelProcessing).t = "Resp"

\* C12: when the proxy answers CONNECT with a status other than 200, connect()
\* raises FailedTunnelError carrying a Response with that status, the socket is
\* never wrapped in TLS, and the engine's socket is released; connect() raises
\* FailedTunnelError in no other case.
C12_TunnelFailure ==
    [][/\ (SeesProxyAnswer /\ Head(TunnelProcessing).status # 200 /\ pc' # pc) =>
              /\ pc' = "idle"
              /\ lastOp' = "connect"
              /\ result' = "FailedTunnelError"
              /\ response' = Head(TunnelProcessing).status
              /\ sock # 0 /\ sock' = 0
              /\ selector' = NoSel
              /\ ~sockets'[sock].open
              /\ ~sockets'[sock].tls
              /\ is_verified' = is_verified
       /\ (result' = "FailedTunnelError" /\ result # result') =>
              (SeesProxyAnswer /\ Head(TunnelProcessing).status # 200)]_vars

\* connect() has failed on a 407 from the proxy
C12_Witness ==
    /\ pc = "idle"
    /\ lastOp = "connect"
    /\ result = "FailedTunnelError"
    /\ response = 407
    /\ sock = 0
    /\ sockets # <<>>
    /\ ~sockets[1].open

\* a is a prefix of b
IsPrefix(a, b) == Len(a) <= Len(b) /\ \A i \in 1..Len(a) : a[i] = b[i]

\* C13: at every moment of send_request (and of _tunnel) the bytes written to
\* the socket so far are a prefix of the bytes the state machine produced for
\* the request: header block, body chunks in input order, end of message;
\* nothing is skipped, repeated or reordered, whatever part of a chunk a send
\* accepts.
C13_BytesInOrder ==
    /\ pc = "idle" => wire = <<>>
    /\ pc # "idle" => IsPrefix(wire, RequestBytes(req))

\* a chunked request with its second body chunk half written
C13_Witness ==
    /\ pc = "send"
    /\ req.chunked
    /\ chunk = 2
    /\ off = 1
    /\ Len(wire) = HdrLen + DataLen + 1

\* a wait of the receive loop expires: the call ends while nothing was received
\* and no event was processed
WaitExpires ==
    /\ pc \in {"resp_wait", "body_wait", "tun_wait"}
    /\ pc' = "idle"
    /\ UNCHANGED <<sm, tsm, inq, srvClosed>>

\* C14: in the receive loop, when the state machine needs data and a
\* select(read_timeout) comes back empty, the call (send_request or next())
\* ends with a timeout error; no event is returned and the wait is not retried.
C14_ReadTimeout ==
    [][WaitExpires => result' = "Timeout"]_vars

\* C15: while the body of a returned Response is being read, the timeout of
\* its select waits stays the read_timeout given to the send_request that
\* returned it: no step taken while the body is open, a rejected send_request
\* included, changes it.
C15_BodyTimeoutFixed ==
    [][(stream = "open" /\ stream' = "open") => read_timeout' = read_timeout]_vars

\* the outcomes of a send_request that did not get past its check of the state
\* machine
Rejected == {"ProtocolError", "AttributeError"}

\* C16: complete is true exactly when the state machine reports both roles
\* IDLE, and then a send_request called next passes its check of the state
\* machine; when complete is false the call is rejected.
C16_CompleteMeansReady ==
    [][/\ complete <=> Ready
       /\ CallsSendRequest => (complete <=> result' \notin Rejected)]_vars

\* connect is called (any arguments, any outcome of the TCP connect and of the
\* TLS wrapping): a step of the idle engine that is a call of connect and not
\* the peer closing the connection
CallsConnect ==
    /\ pc = "idle"
    /\ lastOp' = "connect"
    /\ srvClosed' => srvClosed

\* C17: connect() called while a socket is held returns without opening a
\* connection and leaves socket, selector (mask included), state machine and
\* the exchange in progress as they were; called while no socket is held it
\* creates a new state machine and a new selector.
C17_ConnectIdempotent ==
    [][CallsConnect =>
          IF sock # 0
          THEN /\ result' = "ok"
               /\ UNCHANGED <<pc, engine, locals, sockets, peer, stream>>
          ELSE /\ sm' = NewSM
               /\ selector'.alive
               /\ selector' \in {NewSel, Register(NewSel, sock', {"R", "W"})}]_vars

\* connect() has returned while the body of a response is still being read
C17_Witness ==
    /\ pc = "idle"
    /\ lastOp = "connect"
    /\ result = "ok"
    /\ stream = "open"
    /\ sm.their = "SEND_BODY"
    /\ selector.mask = {"R"}

\* the step ends a connect() called with the arguments a that wrapped its
\* socket in TLS, directly or after a tunnel
Wraps(a) ==
    /\ a.ctx # "none"
    /\ pc' = "idle"
    /\ lastOp' = "connect"
    /\ sock' # 0
    /\ sockets'[sock'].tls
    /\ IF pc = "idle"
       THEN sock = 0 /\ Connect(a, "ok", TRUE)
       ELSE pc \in {"tun_resp", "tun_wait"} /\ cargs = a

\* C20: after TLS wrapping is_verified is true exactly when the context
\* requires verification and hostname checking was not switched off or a
\* fingerprint was given: false for CERT_NONE and CERT_OPTIONAL, false when
\* assert_hostname is False and there is no fingerprint.
C20_Verified ==
    [][\A a \in ConnectArgs :
          Wraps(a) =>
              /\ is_verified' <=>
                     (a.ctx = "CERT_REQUIRED" /\ ~(a.ah = "False" /\ ~a.fp))
              /\ a.ctx # "CERT_REQUIRED" => ~is_verified'
              /\ (a.ah = "False" /\ ~a.fp) => ~is_verified']_vars

\* connect() has returned with a socket wrapped in TLS through a tunnel and
\* found the peer verified
C20_Witness ==
    /\ pc = "idle"
    /\ lastOp = "connect"
    /\ result = "ok"
    /\ tunnel_host
    /\ sock # 0
    /\ sockets[sock].tls
    /\ is_verified

\* ---------------------------------------------------------------------------
\* The properties of the multipart encoder, over FilepostSpec

\* every value of the mapping has a length of its own: text, byte string,
\* integer or seekable readable
WellDefined(fs) ==
    \A k \in 1..Len(fs) : fs[k].value.kind \in {"text", "str", "int", "file"}

\* C18: for a mapping whose values all have well-defined lengths, the length
\* len(encoder) returned before the iteration equals the number of bytes the
\* full iteration of that encoder has produced.
C18_LengthExact ==
    (/\ mp # NoEncoder
     /\ mp.status = "done"
     /\ mp.early
     /\ WellDefined(mp.input)) => mp.predicted_size = Size(mp.out)

\* the bytes of a value as they stand when the iteration begins
Payload(v) ==
    CASE v.kind = "text" -> encode(v.data)
      [] v.kind = "gen" -> encode(SubSeq(v.data, v.pos + 1, Len(v.data)))
      [] v.kind = "int" -> str(v.n)
      [] v.kind = "str" -> v.data
      [] v.kind \in {"file", "pipe"} -> SubSeq(v.data, v.pos + 1, Len(v.data))

\* the lines of one part: delimiter, Content-Disposition, Content-Type, empty
\* line, payload, CRLF
Part(f) ==
    <<"--", Boundary, "CRLF">>
    \o <<"Content-Disposition: form-data; name=QUOTE", f.name>>
    \o (IF f.filename = "" THEN <<>> ELSE <<"QUOTE; filename=QUOTE", f.filename>>)
    \o <<"QUOTE CRLF">>
    \o <<"Content-Type: ",
         CASE f.filename = "" -> "text/plain"
           [] f.filename = "name.txt" -> "text/plain"
           [] f.filename = "blob" -> "application/octet-stream",
         "CRLF">>
    \o <<"CRLF">>
    \o Payload(f.value)
    \o <<"CRLF">>

\* the body of a mapping: its parts in the order of the mapping, then the
\* closing delimiter
RECURSIVE Layout(_)
Layout(fs) ==
    IF fs = <<>> THEN <<"--", Boundary, "--", "CRLF">> ELSE Part(Head(fs)) \o Layout(Tail(fs))

\* C19: an iteration of the encoder emits the parts of the mapping in its
\* order, each with its delimiter, header lines, empty line, payload and CRLF,
\* then one closing delimiter, and nothing else: what has been emitted is at
\* every moment the beginning of that body, a function of the input alone,
\* and all of it once the iteration is over.
C19_Layout ==
    (mp # NoEncoder /\ mp.predicted_size = -1) =>
        /\ IsPrefix(mp.out, Layout(mp.input))
        /\ mp.status \in {"done", "error"} => mp.out = Layout(mp.input)

\* a round of the send loop whose select reports READ and in which the engine
\* acts
ReadsWhileSending ==
    /\ pc \in {"send", "tun_send"}
    /\ Readable
    /\ <<pc, sm, tsm, wire, off, chunk, result>>' # <<pc, sm, tsm, wire, off, chunk, result>>

\* the bytes that were readable have been handed to the state machine of the
\* exchange and the send loop has returned true
FedAndReturnedTrue ==
    /\ inq' = <<>>
    /\ IF pc = "send"
       THEN pc' = "resp" /\ sm' = ReceiveData(sm, inq)
       ELSE pc' = "tun_resp" /\ tsm' = ReceiveData(tsm, inq)

\* C21: a round of the send loop that finds the socket readable calls recv
\* instead of send: it writes no byte, it either leaves the chunk as it is or
\* feeds what it read to the state machine and returns true, and it never ends
\* the call with a failure; the loop goes on to the next chunk only when the
\* whole chunk has been written.
C21_SendLoopStep ==
    [][/\ ReadsWhileSending =>
              (wire' = wire /\ result' = "pending" /\ FedAndReturnedTrue)
       /\ (pc \in {"send", "tun_send"} /\ chunk' # chunk /\ pc' # "idle") =>
              Len(wire') = Len(wire) + (ChunkLen(req, chunk) - off)]_vars

\* send_request has left the send loop with part of the request unwritten
Abandoned ==
    /\ pc \in {"resp", "resp_wait"}
    /\ wire # RequestBytes(req)

\* C22: the upload is abandoned only for a final response: while the peer has
\* not closed, send_request is in its response loop with part of the request
\* unwritten only if the state machine has been given a final response head, so
\* that an informational (1XX) head read during the upload does not stop it.
C22_UploadGoesOn ==
    (Abandoned /\ ~sm.eof) => \E i \in DOMAIN sm.buf : sm.buf[i].t = "Resp"

\* a step of the response loop of send_request
InResponseLoop ==
    /\ pc \in {"resp", "resp_wait"}
    /\ <<pc, sm, result>>' # <<pc, sm, result>>

\* a step in which next() yields a piece of the body of an exchange, one the
\* engine has sent a request for
YieldsData ==
    /\ pc \in {"idle", "body_wait"}
    /\ sm.our # "IDLE"
    /\ lastOp' = "next"
    /\ sm' # sm
    /\ result' = "Data"

\* C23: no body event is surfaced before the Response event: send_request
\* returns only in the step that takes a Response event from the state machine,
\* its response loop yields no body data whatever event it takes, and next()
\* yields a piece of the body only after send_request has returned the
\* Response, the pieces coming in the order of their arrival.
C23_HeaderBeforeBody ==
    [][/\ (InResponseLoop /\ result' \in {"Response", "BadVersionError"}) =>
              (sm.their = "SEND_RESPONSE" /\ sm'.their = "SEND_BODY")
       /\ InResponseLoop => (result' # "Data" /\ response' \notin 1..MaxSrv)
       /\ YieldsData =>
              (stream = "open" /\ response' = Head(sm.buf \o inq).status)]_vars

\* the step in which connect() comes back from a tunnel the proxy accepted
TunnelDone ==
    /\ pc \in {"tun_resp", "tun_wait"}
    /\ pc' = "idle"
    /\ result' \in {"ok", "SSLError"}

\* C24: the CONNECT exchange leaves the engine's own state machine at
\* (IDLE, IDLE) with nothing received; the tunnel hands its socket back
\* unregistered, blocking and not held by the engine, which is how a failed TLS
\* wrap leaves it, and a connect() that succeeds holds the wrapped socket,
\* non-blocking and registered exactly once, for READ and WRITE.
C24_TunnelIsolation ==
    [][TunnelDone =>
          /\ sm' = NewSM
          /\ tsm' = NoSM
          /\ IF result' = "ok"
             THEN /\ sock' = conn
                  /\ sockets'[conn] = [NewSocket EXCEPT !.blocking = FALSE, !.tls = TRUE]
                  /\ selector' = [alive |-> TRUE, reg |-> conn, mask |-> {"R", "W"}, n |-> 1]
             ELSE /\ sock' = 0
                  /\ sockets'[conn] = NewSocket
                  /\ selector' = NewSel]_vars

\* connect() through a proxy has returned: the tunnel is made and wrapped, and
\* nothing of the CONNECT exchange is in the engine's state machine
C24_Witness ==
    /\ pc = "idle"
    /\ lastOp = "connect"
    /\ result = "ok"
    /\ tunnel_host
    /\ sock # 0
    /\ sockets[sock].tls
    /\ selector.n = 1
    /\ sm = NewSM
    /\ upload = "none"

\* C25: a connection is kept for reuse only if the request of the exchange was
\* written in full: when _reset has taken its decision for an exchange whose
\* upload was cut short, the engine does not hold the connection any more.
C25_KeptOnlyIfWritten ==
    (Decided /\ reset.upload = "partial") => ~Kept

\* the rounds of the loops of a call that is under way; the thread that made
\* the call runs them: a round whose select has something to report is taken
Running ==
    \/ \E w \in BOOLEAN, n \in 0..DataLen : SendStep(w, n)
    \/ \E o \in TlsOutcomes : SendTls(o)
    \/ \E n \in 0..DataLen : SendRetry(n)
    \/ \E w \in BOOLEAN : ReadStart(w)
    \/ ReadTimeout
    \/ \E w \in BOOLEAN : ReadWantWrite(w)
    \/ \E w \in BOOLEAN : ReadStep(w)

\* the engine with a thread that keeps running the call it is in
LiveSpec == Init /\ [][Next]_vars /\ WF_vars(Running)

\* send_request is under way, the peer has closed the connection and no final
\* response head has arrived
ClosedBeforeResponse ==
    /\ lastOp = "send_request"
    /\ pc \in {"send", "send_wait", "resp", "resp_wait"}
    /\ srvClosed
    /\ \A i \in DOMAIN (sm.buf \o inq) : (sm.buf \o inq)[i].t # "Resp"

MaxChunks == 3     \* chunks the generator yields
MaxPiece == 2      \* bytes in one chunk
MaxSize == 2       \* largest size asked of read
MaxReads == 3      \* calls of read

\* the k-th chunk, n bytes long
Piece(k, n) == [j \in 1..n |-> <<k, j>>]

\* the chunk sequences: every number of chunks, every length of each
ChunkSequences ==
    { [k \in 1..c |-> Piece(k, lens[k])] :
        c \in 0..MaxChunks, lens \in [1..MaxChunks -> 0..MaxPiece] }

\* ''.join(chunks)
RECURSIVE Joined(_)
Joined(chunks) ==
    IF chunks = <<>> THEN <<>>
    ELSE Joined(SubSeq(chunks, 1, Len(chunks) - 1)) \o chunks[Len(chunks)]

\* IterStreamer.__init__; iterator is the number of chunks taken from the
\* generator; data, size and returned record the calls of read: what the last
\* one returned, for which size, and everything returned so far
IterStreamer(generator) ==
    [generator |-> generator, iterator |-> 0, leftover |-> <<>>,
     data |-> <<>>, size |-> 0, returned |-> <<>>, reads |-> 0]

\* the while loop of read: chunks are taken until count >= size or next()
\* raises StopIteration
RECURSIVE Filled(_, _, _)
Filled(st, data, size) ==
    IF Len(data) >= size \/ st.iterator = Len(st.generator)
    THEN [iterator |-> st.iterator, data |-> data]
    ELSE Filled([st EXCEPT !.iterator = @ + 1],
                data \o st.generator[st.iterator + 1], size)

\* the end of read: leftover is assigned only if count > size
Leftover(st, data, size) ==
    IF Len(data) > size THEN SubSeq(data, size + 1, Len(data)) ELSE st.leftover

\* IterStreamer.read(size)
Read(size) ==
    /\ mp.reads < MaxReads
    /\ LET f == Filled(mp, mp.leftover, size)
           got == SubSeq(f.data, 1, IF Len(f.data) < size THEN Len(f.data) ELSE size)
       IN mp' = [mp EXCEPT !.iterator = f.iterator,
                           !.leftover = Leftover(mp, f.data, size),
                           !.data = got,
                           !.size = size,
                           !.returned = @ \o got,
                           !.reads = @ + 1]
    /\ UNCHANGED connection

StreamerInit ==
    /\ Constructed
    /\ ~tunnel_host
    /\ mp \in { IterStreamer(g) : g \in ChunkSequences }

StreamerNext == \E size \in 1..MaxSize : Read(size)

StreamerSpec == StreamerInit /\ [][StreamerNext]_vars

\* C27: read gives the stream as it is: a call returns at most size bytes, and
\* fewer only when the generator has no chunk left; what the calls returned,
\* put end to end, is the beginning of the chunks put end to end, no byte left
\* out and none given twice.
C27_ReadPreserves ==
    mp.reads > 0 =>
        /\ Len(mp.data) <= mp.size
        /\ Len(mp.data) < mp.size => mp.iterator = Len(mp.generator)
        /\ IsPrefix(mp.returned, Joined(mp.generator))

\* C28: is_verified speaks of the socket the engine holds: when it is true the
\* engine holds a socket wrapped in TLS, and after close() it is false.
C28_VerifiedIsCurrent ==
    is_verified => (sock # 0 /\ sockets[sock].open /\ sockets[sock].tls)

\* C29: a body of an unsupported kind is refused before anything is sent:
\* InvalidBodyError is raised by the step that starts send_request, before a
\* round of the send loop, with no byte on the wire and the state machine
\* still at (IDLE, IDLE).
C29_RejectedBeforeSending ==
    [][(result' = "InvalidBodyError" /\ result # "InvalidBodyError") =>
          /\ pc = "idle"
          /\ wire = <<>>
          /\ sm'.our = "IDLE"
          /\ sm'.their = "IDLE"]_vars
====
